---------------------------- MODULE Spec2Model ----------------------------
(***************************************************************************)
(* A model of the terrain editor of src/main.cpp: the density grid         *)
(* (olc::Sprite map), the three grid-DDA raycasts, the brush operations    *)
(* and the per-frame edit gate of OnUserUpdate.                            *)
(*                                                                         *)
(* Numbers.  A cell stores one 8-bit level 0..255 (r = g = b); the float   *)
(* density of the source is level/255.  Float expressions are evaluated    *)
(* as exact rationals and the final uint8 conversion as a floor; the       *)
(* round trip uint8(float(v)/255.0f*255.0f) is the identity on 0..255 in   *)
(* IEEE single precision, as it is here.  Lengths along a ray are kept as  *)
(* an integer count of unit steps (unit 1 for an axis-aligned direction,   *)
(* sqrt 2 for a diagonal one); max_distance is given in half cells.        *)
(***************************************************************************)
EXTENDS Integers, Sequences, FiniteSets, TLC

(* ------------------------------ bounds -------------------------------- *)
RayMapSize == 3       \* side of the map in the raycast runs (512 in the source)
PixelMapSize == 2     \* side of the map in the colour accessor runs
StampMapSize == 5     \* side of the map in the stamp runs
MaxRadius == 2        \* largest brush_size of a stamp
MaxDist2 == 5         \* largest max_distance of a cast, in half cells
BlendMapSize == 15    \* side of the map in the blend runs
MaxBrush == 3         \* largest brush_size of a blend
MaxBlend == 2         \* largest blend_range of a blend
TicksPerSecond == 120 \* resolution of the frame times
MaxDt == 6            \* longest frame, in ticks
ConeMapSize == 5      \* side of the map in the cone sweep runs
FrameMapSize == 2     \* side of the map in the runs of the frames on a map

(* -------------------------- program constants ------------------------- *)
MaxLevel == 255       \* the 8-bit channel maximum, density 1.0

VARIABLES
    map,              \* olc::Sprite map: cell -> level
    ray,              \* the running raycast: locals of Raycast*
    px,               \* the last call of a colour accessor and the level it found
    brush,            \* the running or last brush operation: its arguments and locals
    ui                \* the frame loop: the members OnUserUpdate keeps between frames

vars == <<map, ray, px, brush, ui>>

\* a part of the state that a specification does not use
Idle == [pc |-> "idle"]

(* ------------------------------- grid --------------------------------- *)
\* the cells of a square map of the given side; a map is a function
\* cell -> level whose domain is its extent (map_size)
CellsOf(size) == (0..(size - 1)) \X (0..(size - 1))
Levels == 0..MaxLevel

\* x >= 0 && x < map_size.x && y >= 0 && y < map_size.y
InBounds(g, pos) == pos \in DOMAIN g

\* olc::Sprite::GetPixel as used by the accessors: the stored level, and the
\* default (black) pixel for a position outside the sprite.
GetPixel(g, pos) == IF InBounds(g, pos) THEN g[pos] ELSE 0

\* olc::Sprite::SetPixel: stores inside the sprite, ignores a position outside.
SetPixel(g, pos, level) == IF InBounds(g, pos) THEN [g EXCEPT ![pos] = level] ELSE g

\* FillRect({0,0}, map.Size(), olc::BLACK)
ResetMap(g) == [c \in DOMAIN g |-> 0]

MapLocationIsEmpty(g, pos) == GetPixel(g, pos) = 0

MapLocationIsFull(g, pos) == GetPixel(g, pos) = MaxLevel

\* the threshold of the target cast at 0 instead of 0.5
ColourAtLeastHalf_AtZero(g, pos) == GetPixel(g, pos) >= 0

\* GetColourValue(pos) >= 0.5f  <=>  level/255 >= 1/2
ColourAtLeastHalf(g, pos) == 2 * GetPixel(g, pos) >= MaxLevel

(* ------------------------------ raycast ------------------------------- *)
Variants == {"RaycastPixel", "RaycastPrePixel", "RaycastPixelTarget"}

\* the eight compass directions; (dx,dy) stands for the unit vector (dx,dy)/|(dx,dy)|
Dirs == ((-1..1) \X (-1..1)) \ {<<0, 0>>}
AxisDirs == {d \in Dirs : d[1] = 0 \/ d[2] = 0}
IsDiagonal(d) == d[1] # 0 /\ d[2] # 0

\* vRayLength1D of one axis: n unit steps, or infinite when the direction
\* component is 0 (vRayUnitStepSize = sqrt(1 + (a/0)^2) = inf)
RayLengthInit(dc) == [inf |-> dc = 0, n |-> IF dc < 0 THEN 0 ELSE 1]

\* vRayLength1D.x < vRayLength1D.y
RayLengthLess(a, b) == ~a.inf /\ (b.inf \/ a.n < b.n)

\* fDistance < max_distance, fDistance = n unit steps, max_distance = m2/2
DistanceLess(n, d, m2) ==
    IF IsDiagonal(d) THEN m2 > 0 /\ 8 * n * n < m2 * m2 ELSE 2 * n < m2

\* TileTest with the 0.5 threshold of RaycastPixelTarget in every variant
TileTest_HalfEverywhere(variant, g, pos) == ColourAtLeastHalf(g, pos)

\* the occupancy test of the variant's loop
TileTest(variant, g, pos) ==
    IF variant = "RaycastPixelTarget" THEN ColourAtLeastHalf(g, pos)
    ELSE ~MapLocationIsEmpty(g, pos)

\* the locals after "Establish Starting Conditions"
RayStart(variant, start, d, m2) ==
    [variant |-> variant, ray_start_pos |-> start, ray_dir |-> d, max2 |-> m2,
     vMapCheck |-> start,
     lenX |-> RayLengthInit(d[1]), lenY |-> RayLengthInit(d[2]),
     vStep |-> <<IF d[1] < 0 THEN -1 ELSE 1, IF d[2] < 0 THEN -1 ELSE 1>>,
     fDistance |-> 0, bTileFound |-> FALSE, previous_tile |-> start,
     walk |-> <<>>, entered |-> <<>>, tested |-> <<>>,
     pc |-> "walk", hit |-> FALSE, intersection_result |-> start]

\* the loop as a do-while: the first iteration runs whatever max_distance is
RayLoopCond_DoWhile(r) ==
    ~r.bTileFound /\ (r.walk = <<>> \/ DistanceLess(r.fDistance, r.ray_dir, r.max2))

\* while (!bTileFound && fDistance < max_distance)
RayLoopCond(r) == ~r.bTileFound /\ DistanceLess(r.fDistance, r.ray_dir, r.max2)

\* RayStep without the bounds check around the occupancy test
RayStep_NoBoundsCheck(g, r) ==
    LET xs  == RayLengthLess(r.lenX, r.lenY)
        nxt == IF xs THEN <<r.vMapCheck[1] + r.vStep[1], r.vMapCheck[2]>>
                     ELSE <<r.vMapCheck[1], r.vMapCheck[2] + r.vStep[2]>>
        dist == IF xs THEN r.lenX.n ELSE r.lenY.n
    IN  [r EXCEPT !.previous_tile = r.vMapCheck,
                  !.vMapCheck = nxt,
                  !.fDistance = dist,
                  !.lenX = IF xs THEN [@ EXCEPT !.n = @ + 1] ELSE @,
                  !.lenY = IF xs THEN @ ELSE [@ EXCEPT !.n = @ + 1],
                  !.bTileFound = TileTest(r.variant, g, nxt),
                  !.walk = Append(@, nxt),
                  !.entered = Append(@, dist),
                  !.tested = Append(@, nxt)]

\* one iteration of the walk
RayStep(g, r) ==
    LET xs  == RayLengthLess(r.lenX, r.lenY)
        nxt == IF xs THEN <<r.vMapCheck[1] + r.vStep[1], r.vMapCheck[2]>>
                     ELSE <<r.vMapCheck[1], r.vMapCheck[2] + r.vStep[2]>>
        dist == IF xs THEN r.lenX.n ELSE r.lenY.n
        inb == InBounds(g, nxt)
    IN  [r EXCEPT !.previous_tile = r.vMapCheck,
                  !.vMapCheck = nxt,
                  !.fDistance = dist,
                  !.lenX = IF xs THEN [@ EXCEPT !.n = @ + 1] ELSE @,
                  !.lenY = IF xs THEN @ ELSE [@ EXCEPT !.n = @ + 1],
                  !.bTileFound = inb /\ TileTest(r.variant, g, nxt),
                  !.walk = Append(@, nxt),
                  !.entered = Append(@, dist),
                  !.tested = IF inb THEN Append(@, nxt) ELSE @]

\* RayFinish reporting the previous tile whenever the last tile is not empty
RayFinish_PreOnNonEmpty(g, r) ==
    [r EXCEPT !.pc = "done",
              !.hit = r.bTileFound,
              !.intersection_result =
                  IF r.variant = "RaycastPrePixel" /\ ~MapLocationIsEmpty(g, r.vMapCheck)
                  THEN r.previous_tile ELSE r.vMapCheck]

\* the code after the loop: the reported cell and the return value
RayFinish(g, r) ==
    [r EXCEPT !.pc = "done",
              !.hit = r.bTileFound,
              !.intersection_result =
                  IF r.variant = "RaycastPrePixel" /\ MapLocationIsFull(g, r.vMapCheck)
                  THEN r.previous_tile ELSE r.vMapCheck]

RECURSIVE RayRun(_, _)
RayRun(g, r) == IF RayLoopCond(r) THEN RayRun(g, RayStep(g, r)) ELSE RayFinish(g, r)

\* a whole cast
Raycast(variant, g, start, d, m2) == RayRun(g, RayStart(variant, start, d, m2))

(* --------------------- the raycasts, step by step --------------------- *)
\* grids of the raycast runs: a uniform background and one cell of its own
SampleLevels == {0, 100, MaxLevel}
RayCells == CellsOf(RayMapSize)
RayGrids == {[c \in RayCells |-> IF c = a THEN la ELSE bg] :
                a \in RayCells, la \in SampleLevels, bg \in {0, MaxLevel}}
Origins == (-1..RayMapSize) \X (-1..RayMapSize)

InitRay ==
    /\ px = Idle /\ brush = Idle /\ ui = Idle
    /\ map \in RayGrids
    /\ \E v \in Variants, o \in Origins, d \in Dirs, m2 \in 0..MaxDist2 :
           ray = RayStart(v, o, d, m2)

RayWalk ==
    /\ ray.pc = "walk"
    /\ RayLoopCond(ray)
    /\ ray' = RayStep(map, ray)
    /\ UNCHANGED <<map, px, brush, ui>>

RayReturn ==
    /\ ray.pc = "walk"
    /\ ~RayLoopCond(ray)
    /\ ray' = RayFinish(map, ray)
    /\ UNCHANGED <<map, px, brush, ui>>

NextRay == RayWalk \/ RayReturn

SpecRay == InitRay /\ [][NextRay]_vars


(* -------------------------- colour accessors -------------------------- *)
\* A fraction argument is the rational num/den, den > 0; a density is kept
\* as a numerator over a denominator as well.

\* the numerator left unclamped
Clamp01_None(n, d) == n

\* std::clamp(n/d, 0.0f, 1.0f), as a numerator over d
Clamp01(n, d) == IF n < 0 THEN 0 ELSE IF n > d THEN d ELSE n

\* uint8_t(result_fraction * 255.0f) for result_fraction = n/d
Projected(n, d) == ((MaxLevel * n) \div d) % 256

SetColourValue(g, pos, num, den) ==
    SetPixel(g, pos, Projected(Clamp01(num, den), den))

\* curr_fraction = level/255; curr_fraction - num/den = (level*den - 255*num)/(255*den)
SubtractValueFromColour(g, pos, num, den) ==
    LET n == GetPixel(g, pos) * den - MaxLevel * num
        d == MaxLevel * den
    IN  SetPixel(g, pos, Projected(Clamp01(n, d), d))

AddValueToColour(g, pos, num, den) ==
    LET n == GetPixel(g, pos) * den + MaxLevel * num
        d == MaxLevel * den
    IN  SetPixel(g, pos, Projected(Clamp01(n, d), d))

\* GetColourValue(pos) * 255: the level, 0 outside the map
GetColourLevel(g, pos) == GetPixel(g, pos)

\* fraction arguments of the runs: huge, negative, zero, small and exact
Fractions == {<<-1000, 1>>, <<-1, 2>>, <<0, 1>>, <<1, 3>>, <<1, 2>>, <<1, 1>>, <<1000, 1>>}
\* one cell of the map and one position outside it
PixelTargets == {<<0, 0>>, <<PixelMapSize, 0>>}

InitPixel ==
    /\ ray = Idle /\ brush = Idle /\ ui = Idle
    /\ map = [c \in CellsOf(PixelMapSize) |-> 0]
    /\ px = [op |-> "none"]

PixelCall(name, pos, f) ==
    [op |-> name, pos |-> pos, num |-> f[1], den |-> f[2], before |-> GetPixel(map, pos)]

CallSetColourValue ==
    \E pos \in PixelTargets, f \in Fractions :
        /\ map' = SetColourValue(map, pos, f[1], f[2])
        /\ px' = PixelCall("SetColourValue", pos, f)
        /\ UNCHANGED <<ray, brush, ui>>

CallSubtractValueFromColour ==
    \E pos \in PixelTargets, f \in Fractions :
        /\ map' = SubtractValueFromColour(map, pos, f[1], f[2])
        /\ px' = PixelCall("SubtractValueFromColour", pos, f)
        /\ UNCHANGED <<ray, brush, ui>>

CallAddValueToColour ==
    \E pos \in PixelTargets, f \in Fractions :
        /\ map' = AddValueToColour(map, pos, f[1], f[2])
        /\ px' = PixelCall("AddValueToColour", pos, f)
        /\ UNCHANGED <<ray, brush, ui>>

NextPixel == CallSetColourValue \/ CallSubtractValueFromColour \/ CallAddValueToColour

SpecPixel == InitPixel /\ [][NextPixel]_vars


(* ------------------------ arithmetic of a blend ------------------------ *)
\* Natural numbers beyond 32 bits are sequences of base-1000 limbs, least
\* significant limb first.
RECURSIVE BigMul(_, _, _)
BigMul(b, m, carry) ==
    IF b = <<>>
    THEN (IF carry = 0 THEN <<>> ELSE <<carry % 1000>> \o BigMul(<<>>, m, carry \div 1000))
    ELSE LET t == Head(b) * m + carry
         IN  <<t % 1000>> \o BigMul(Tail(b), m, t \div 1000)

\* quotient and remainder of b by a small divisor, from the top limb down
RECURSIVE BigDivFrom(_, _, _, _)
BigDivFrom(b, i, dv, rem) ==
    IF i = 0 THEN [q |-> <<>>, r |-> rem]
    ELSE LET cur  == rem * 1000 + b[i]
             rest == BigDivFrom(b, i - 1, dv, cur % dv)
         IN  [q |-> rest.q \o <<cur \div dv>>, r |-> rest.r]
BigDiv(b, dv) == BigDivFrom(b, Len(b), dv, 0)

RECURSIVE BigToInt(_)
BigToInt(b) == IF b = <<>> THEN 0 ELSE Head(b) + 1000 * BigToInt(Tail(b))

\* floor and exactness of k * x^3 / (255^2 * d^3)
CubeOver(k, x, d) ==
    LET num == BigMul(BigMul(BigMul(<<k>>, x, 0), x, 0), x, 0)
        d1 == BigDiv(num, d)
        d2 == BigDiv(d1.q, d)
        d3 == BigDiv(d2.q, d)
        d4 == BigDiv(d3.q, MaxLevel)
        d5 == BigDiv(d4.q, MaxLevel)
    IN  [floor |-> BigToInt(d5.q),
         exact |-> d1.r = 0 /\ d2.r = 0 /\ d3.r = 0 /\ d4.r = 0 /\ d5.r = 0]

\* the blend law without the current value of the cell
BlendLevel_NoCurrent(c, n, d, wc, q) ==
    IF 2 * n < MaxLevel * d
    THEN CubeOver(4 * (q - wc), n, d).floor \div q
    ELSE LET co == CubeOver(4 * (q - wc), MaxLevel * d - n, d)
         IN  (MaxLevel * (q - wc) - (co.floor + IF co.exact THEN 0 ELSE 1)) \div q

\* The level stored for new_voxel_value = curr * t + EaseInOutCubic(average) * (1 - t),
\* where curr = c/255, average = n/(255 d) and t = wc/q in [0, 1]:
\*   EaseInOutCubic(a) = 4 a^3 for a < 0.5, 1 - (2 - 2a)^3 / 2 otherwise,
\*   stored level = floor(255 * new_voxel_value)
BlendLevel(c, n, d, wc, q) ==
    IF 2 * n < MaxLevel * d
    THEN (c * wc + CubeOver(4 * (q - wc), n, d).floor) \div q
    ELSE LET co == CubeOver(4 * (q - wc), MaxLevel * d - n, d)
         IN  (c * wc + MaxLevel * (q - wc) - (co.floor + IF co.exact THEN 0 ELSE 1)) \div q


(* ----------------------------- BlockBuffer ---------------------------- *)
\* A float of a blend is kept exactly.  Rat(n, d) is the density n/(255 d),
\* that is n/d levels; Blend(c, n, d, wc, q) is the density
\* (c/255) (wc/q) + EaseInOutCubic(n/(255 d)) (1 - wc/q).
Rat(n, d) == [k |-> "rat", n |-> n, d |-> d]
Blend(c, n, d, wc, q) == [k |-> "blend", c |-> c, n |-> n, d |-> d, wc |-> wc, q |-> q]

RatAdd(a, b) ==
    IF a.d = b.d THEN Rat(a.n + b.n, a.d) ELSE Rat(a.n * b.d + b.n * a.d, a.d * b.d)
RatSub(a, b) ==
    IF a.d = b.d THEN Rat(a.n - b.n, a.d) ELSE Rat(a.n * b.d - b.n * a.d, a.d * b.d)
RatDiv(a, m) == Rat(a.n, a.d * m)

RECURSIVE RatSum(_)
RatSum(q) == IF q = <<>> THEN Rat(0, 1) ELSE RatAdd(RatSum(Tail(q)), Head(q))

\* BlockBuffer<float>(from, to): from and to inclusive, filled with float()
BlockBuffer(from, to) ==
    LET xs == to[1] - from[1] + 1
        ys == to[2] - from[2] + 1
    IN  [x_offset |-> from[1], y_offset |-> from[2], x_size |-> xs, y_size |-> ys,
         buffer |-> [i \in 0..(xs * ys - 1) |-> Rat(0, 1)]]

get_index(bb, x, y) == (y - bb.y_offset) * bb.x_size + (x - bb.x_offset)
BufferSet(bb, x, y, value) == [bb EXCEPT !.buffer[get_index(bb, x, y)] = value]
BufferGet(bb, x, y) == bb.buffer[get_index(bb, x, y)]

\* SetColourValue(pos, value) for a float of a blend
SetColourValueOf(g, pos, v) ==
    IF v.k = "rat" THEN SetColourValue(g, pos, v.n, MaxLevel * v.d)
    ELSE SetPixel(g, pos, BlendLevel(v.c, v.n, v.d, v.wc, v.q))

(* --------------------------- BlendBall brushes ------------------------ *)
BlendVariants == <<"Naive", "Fast", "Fast2">>

Max(a, b) == IF a >= b THEN a ELSE b
Min(a, b) == IF a <= b THEN a ELSE b

\* the sum of GetColourValue over the cells x1..x2 x y1..y2, in levels
RECURSIVE RowSum(_, _, _, _)
RowSum(g, y, x1, x2) ==
    IF x1 > x2 THEN 0 ELSE GetColourLevel(g, <<x1, y>>) + RowSum(g, y, x1 + 1, x2)
RECURSIVE BoxSum(_, _, _, _, _)
BoxSum(g, x1, x2, y1, y2) ==
    IF y1 > y2 THEN 0 ELSE RowSum(g, y1, x1, x2) + BoxSum(g, x1, x2, y1 + 1, y2)

Box(x1, x2, y1, y2) == (x1..x2) \X (y1..y2)

\* bookkeeping of an invocation's accesses to the map: the cells it has
\* written, whether it read a cell it had written, and whether it read the
\* map at all after its first write
Track(g, b, reads, writes) ==
    [b EXCEPT !.readAfterWrite = @ \/ (reads \cap b.written # {}),
              !.readAfterAnyWrite = @ \/ (reads \cap DOMAIN g # {} /\ b.written # {}),
              !.written = @ \cup (writes \cap DOMAIN g)]

\* for (x ...) for (y ...): the indices of the next iteration
NextXY(b, xlo, xhi, ylo, yhi) ==
    IF b.y < yhi THEN <<b.x, b.y + 1>> ELSE <<b.x + 1, ylo>>
\* for (y ...) for (x ...)
NextYX(b, xlo, xhi, ylo, yhi) ==
    IF b.x < xhi THEN <<b.x + 1, b.y>> ELSE <<xlo, b.y + 1>>

FastBlendRange == 5

\* the margin of the buffer of the separable variant left out
extended_brush_size_NoMargin(b) == b.brush_size

\* int extended_brush_size = brush_size + blend_range
extended_brush_size(b) == b.brush_size + b.blend_range

\* The raycast and the set-up of a variant; a miss returns at once.
BlendBegin(variant, g, b) ==
    LET rc == Raycast("RaycastPixel", g, b.player_pos, b.ray_dir, b.max2)
        R  == b.brush_size
        ext == extended_brush_size(b)
        half == R + FastBlendRange
        size == 2 * half + 1
        b0 == [b EXCEPT !.op = variant, !.hit = rc.hit,
                        !.tx = rc.intersection_result[1], !.ty = rc.intersection_result[2],
                        !.written = {}, !.readAfterWrite = FALSE, !.readAfterAnyWrite = FALSE,
                        !.colour_sum = Rat(0, 1), !.buffered_values = <<>>,
                        !.buffer = Idle, !.sums = <<>>]
    IN  IF ~rc.hit THEN [b0 EXCEPT !.pc = "done"]
        ELSE IF variant = "Naive"
        THEN [b0 EXCEPT !.pc = "NaiveCompute", !.x = -R, !.y = -R,
                        !.buffer = BlockBuffer(<<-R, -R>>, <<R, R>>)]
        ELSE IF variant = "Fast"
        THEN [b0 EXCEPT !.pc = "FastSums", !.x = 0, !.y = 0,
                        !.sums = [i \in 0..(size * size - 1) |-> 0]]
        ELSE [b0 EXCEPT !.pc = "Fast2XBlur", !.x = -R, !.y = -ext,
                        !.buffer = BlockBuffer(<<-ext, -ext>>, <<ext, ext>>)]

\* the buffer left at float() outside the disc instead of the cell's value
NaiveValue_NoCopy(g, b) ==
    LET R  == b.brush_size
        B  == b.blend_range
        x0 == b.x + b.tx
        y0 == b.y + b.ty
        distance == b.x * b.x + b.y * b.y
    IN  IF distance >= R * R THEN Rat(0, 1)
        ELSE Blend(GetColourLevel(g, <<x0, y0>>),
                   BoxSum(g, x0 - B, x0 + B, y0 - B, y0 + B), (2 * B + 1) * (2 * B + 1),
                   Max(2 * distance - R * R, 0), R * R)

\* the float a cell of the brush square gets in AdjustTerrain_BlendBallFractional
NaiveValue(g, b) ==
    LET R  == b.brush_size
        B  == b.blend_range
        x0 == b.x + b.tx
        y0 == b.y + b.ty
        distance == b.x * b.x + b.y * b.y
    IN  IF distance >= R * R THEN Rat(GetColourLevel(g, <<x0, y0>>), 1)
        ELSE Blend(GetColourLevel(g, <<x0, y0>>),
                   BoxSum(g, x0 - B, x0 + B, y0 - B, y0 + B), (2 * B + 1) * (2 * B + 1),
                   Max(2 * distance - R * R, 0), R * R)

NaiveReads(b) ==
    LET R  == b.brush_size
        B  == b.blend_range
        x0 == b.x + b.tx
        y0 == b.y + b.ty
    IN  IF b.x * b.x + b.y * b.y >= R * R THEN {<<x0, y0>>}
        ELSE Box(x0 - B, x0 + B, y0 - B, y0 + B)

\* the first loop nest written without the buffer: the value goes to the map at once
NaiveCompute_InPlace(g, b) ==
    LET R == b.brush_size
        v == NaiveValue(g, b)
        n == NextXY(b, -R, R, -R, R)
        last == b.x = R /\ b.y = R
        pos == <<b.x + b.tx, b.y + b.ty>>
    IN  [map |-> SetColourValueOf(g, pos, v),
         brush |-> [Track(g, b, NaiveReads(b), {pos}) EXCEPT
                        !.buffer = BufferSet(b.buffer, b.x, b.y, v),
                        !.x = IF last THEN -R ELSE n[1],
                        !.y = IF last THEN -R ELSE n[2],
                        !.pc = IF last THEN "NaiveApply" ELSE @]]

\* one iteration of the first loop nest of AdjustTerrain_BlendBallFractional
NaiveCompute(g, b) ==
    LET R == b.brush_size
        v == NaiveValue(g, b)
        n == NextXY(b, -R, R, -R, R)
        last == b.x = R /\ b.y = R
    IN  [map |-> g,
         brush |-> [Track(g, b, NaiveReads(b), {}) EXCEPT
                        !.buffer = BufferSet(b.buffer, b.x, b.y, v),
                        !.x = IF last THEN -R ELSE n[1],
                        !.y = IF last THEN -R ELSE n[2],
                        !.pc = IF last THEN "NaiveApply" ELSE @]]

\* one iteration of "apply the changes"
NaiveApply(g, b) ==
    LET R == b.brush_size
        pos == <<b.x + b.tx, b.y + b.ty>>
        n == NextXY(b, -R, R, -R, R)
        last == b.x = R /\ b.y = R
    IN  [map |-> SetColourValueOf(g, pos, BufferGet(b.buffer, b.x, b.y)),
         brush |-> [Track(g, b, {}, {pos}) EXCEPT
                        !.x = n[1], !.y = n[2],
                        !.pc = IF last THEN "done" ELSE @]]

\* one iteration of the summed-area table loop of AdjustTerrain_BlendBallFractionalFast
FastSums(g, b) ==
    LET half == b.brush_size + FastBlendRange
        size == 2 * half + 1
        i    == b.y * size + b.x
        pos  == <<b.tx + (b.x - half), b.ty + (b.y - half)>>
        sum  == GetColourLevel(g, pos)
                + (IF b.x > 0 THEN b.sums[i - 1] ELSE 0)
                + (IF b.y > 0 THEN b.sums[i - size] ELSE 0)
                - (IF b.x > 0 /\ b.y > 0 THEN b.sums[i - (size + 1)] ELSE 0)
        n    == NextYX(b, 0, size - 1, 0, size - 1)
        last == b.x = size - 1 /\ b.y = size - 1
    IN  [map |-> g,
         brush |-> [Track(g, b, {pos}, {}) EXCEPT
                        !.sums[i] = sum,
                        !.x = IF last THEN 0 ELSE n[1],
                        !.y = IF last THEN 0 ELSE n[2],
                        !.pc = IF last THEN "FastApply" ELSE @]]

\* one iteration of "apply brush to region"
FastApply(g, b) ==
    LET R    == b.brush_size
        half == R + FastBlendRange
        size == 2 * half + 1
        dx   == b.x - half
        dy   == b.y - half
        pos  == <<b.tx + dx, b.ty + dy>>
        ymin == Max(b.y - FastBlendRange, 0) - 1
        ymax == Min(b.y + FastBlendRange, size - 1)
        xmin == Max(b.x - FastBlendRange, 0) - 1
        xmax == Min(b.x + FastBlendRange, size - 1)
        area == (xmax - xmin) * (ymax - ymin)
        sa   == IF xmin < 0 \/ ymin < 0 THEN 0 ELSE b.sums[ymin * size + xmin]
        sb   == IF ymin < 0 THEN 0 ELSE b.sums[ymin * size + xmax]
        sc   == IF xmin < 0 THEN 0 ELSE b.sums[ymax * size + xmin]
        sd   == b.sums[ymax * size + xmax]
        sum  == (sd + sa) - (sb + sc)
        distance == dx * dx + dy * dy
        \* distance_normalised = max((1 - distance/R^2) * 2 - 1, 0), the weight of the average
        wa   == Max(R * R - 2 * distance, 0)
        v    == Blend(GetColourLevel(g, pos), sum, area, R * R - wa, R * R)
        n    == NextYX(b, 0, size - 1, 0, size - 1)
        last == b.x = size - 1 /\ b.y = size - 1
    IN  [map |-> SetColourValueOf(g, pos, v),
         brush |-> [Track(g, b, {pos}, {pos}) EXCEPT
                        !.x = n[1], !.y = n[2],
                        !.pc = IF last THEN "done" ELSE @]]

\* one iteration of "x blur" of AdjustTerrain_BlendBallFractionalFast2
Fast2XBlur(g, b) ==
    LET R    == b.brush_size
        B    == b.blend_range
        ext  == extended_brush_size(b)
        x0   == b.x + b.tx
        y0   == b.y + b.ty
        first == b.x = -R
        fill == [k \in 1..(2 * B + 1) |-> Rat(GetColourLevel(g, <<x0 + (k - 1 - B), y0>>), 1)]
        value == Rat(GetColourLevel(g, <<x0 + B, y0>>), 1)
        pushed == b.buffered_values \o <<value>>
        queue == IF first THEN fill ELSE Tail(pushed)
        colour_sum == IF first THEN RatSum(fill)
                      ELSE RatSub(RatAdd(b.colour_sum, value), Head(pushed))
        reads == IF first THEN Box(x0 - B, x0 + B, y0, y0) ELSE {<<x0 + B, y0>>}
        n    == NextYX(b, -R, R, -ext, ext)
        last == b.x = R /\ b.y = ext
    IN  [map |-> g,
         brush |-> [Track(g, b, reads, {}) EXCEPT
                        !.buffered_values = queue,
                        !.colour_sum = colour_sum,
                        !.buffer = BufferSet(b.buffer, b.x, b.y, RatDiv(colour_sum, 2 * B + 1)),
                        !.x = IF last THEN -R ELSE n[1],
                        !.y = IF last THEN -R ELSE n[2],
                        !.pc = IF last THEN "Fast2YBlur" ELSE @]]

\* one iteration of "y blur"
Fast2YBlur(g, b) ==
    LET R    == b.brush_size
        B    == b.blend_range
        first == b.y = -R
        fill == [k \in 1..(2 * B + 1) |-> BufferGet(b.buffer, b.x, b.y + (k - 1 - B))]
        value == BufferGet(b.buffer, b.x, b.y + B)
        pushed == b.buffered_values \o <<value>>
        queue == IF first THEN fill ELSE Tail(pushed)
        colour_sum == IF first THEN RatSum(fill)
                      ELSE RatSub(RatAdd(b.colour_sum, value), Head(pushed))
        n    == NextXY(b, -R, R, -R, R)
        last == b.x = R /\ b.y = R
    IN  [map |-> g,
         brush |-> [b EXCEPT
                        !.buffered_values = queue,
                        !.colour_sum = colour_sum,
                        !.buffer = BufferSet(b.buffer, b.x, b.y, RatDiv(colour_sum, 2 * B + 1)),
                        !.x = IF last THEN -R ELSE n[1],
                        !.y = IF last THEN -R ELSE n[2],
                        !.pc = IF last THEN "Fast2Paste" ELSE @]]

\* one iteration of "processing and pasting result"
Fast2Paste(g, b) ==
    LET R    == b.brush_size
        pos  == <<b.x + b.tx, b.y + b.ty>>
        distance == b.x * b.x + b.y * b.y
        average == BufferGet(b.buffer, b.x, b.y)
        v    == Blend(GetColourLevel(g, pos), average.n, average.d,
                      Max(2 * distance - R * R, 0), R * R)
        n    == NextXY(b, -R, R, -R, R)
        last == b.x = R /\ b.y = R
        b1   == [b EXCEPT !.x = n[1], !.y = n[2], !.pc = IF last THEN "done" ELSE @]
    IN  IF distance >= R * R THEN [map |-> g, brush |-> b1]
        ELSE [map |-> SetColourValueOf(g, pos, v), brush |-> Track(g, b1, {pos}, {pos})]

\* the BlockBuffer calls of the loop iteration a run is at: gets, then sets
BufferGets(b) ==
    LET B == b.blend_range
    IN  CASE b.pc = "NaiveApply" -> {<<b.x, b.y>>}
          [] b.pc = "Fast2YBlur" ->
                 IF b.y = -b.brush_size THEN {<<b.x, b.y + oy>> : oy \in -B..B}
                 ELSE {<<b.x, b.y + B>>}
          [] b.pc = "Fast2Paste" ->
                 IF b.x * b.x + b.y * b.y >= b.brush_size * b.brush_size THEN {}
                 ELSE {<<b.x, b.y>>}
          [] OTHER -> {}
BufferSets(b) ==
    IF b.pc \in {"NaiveCompute", "Fast2XBlur", "Fast2YBlur"} THEN {<<b.x, b.y>>} ELSE {}

\* from.x <= x <= to.x and from.y <= y <= to.y, and the index inside the vector
InWindow(bb, pos) ==
    /\ pos[1] \in bb.x_offset..(bb.x_offset + bb.x_size - 1)
    /\ pos[2] \in bb.y_offset..(bb.y_offset + bb.y_size - 1)
    /\ get_index(bb, pos[1], pos[2]) \in 0..(bb.x_size * bb.y_size - 1)

\* an access outside the window is outside the language: the run is given up
BufferFault(b) == \E pos \in BufferGets(b) \cup BufferSets(b) : ~InWindow(b.buffer, pos)

\* bookkeeping of the buffer cells the passes of the separable variant have set,
\* and whether its vertical pass got a cell the horizontal pass had not set or
\* the vertical pass had already set
NoteBuffer(old, new) ==
    [new EXCEPT !.hWritten = IF old.pc = "Fast2XBlur" THEN @ \cup BufferSets(old) ELSE @,
                !.vWritten = IF old.pc = "Fast2YBlur" THEN @ \cup BufferSets(old) ELSE @,
                !.staleRead = @ \/ (old.pc = "Fast2YBlur" /\
                                    \E pos \in BufferGets(old) :
                                        pos \notin old.hWritten \/ pos \in old.vWritten)]

(* ---------------------- the blends, step by step ---------------------- *)
BlendCells == CellsOf(BlendMapSize)
BlendMid == BlendMapSize \div 2
UniformLevels == {0, 100, 128, MaxLevel}
BlendGrids == {[c \in BlendCells |-> v] : v \in UniformLevels}
              \cup {[c \in BlendCells |-> IF c[1] >= BlendMid THEN MaxLevel ELSE 0],
                    [c \in BlendCells |-> IF c[1] > BlendMid THEN MaxLevel
                                           ELSE IF c = <<BlendMid, BlendMid>> THEN 100 ELSE 0],
                    [c \in BlendCells |-> (37 * c[1] + 101 * c[2] + 5) % 256]}
\* player_pos and the direction to the pointer: towards the middle of the map,
\* and along the diagonal from its corner
BlendAims == {<<<<BlendMid - 1, BlendMid>>, <<1, 0>>>>, <<<<1, 1>>, <<1, 1>>>>}
BlendReach == 2 * BlendMapSize

\* the frame's own cast, whose hit cell OnUserUpdate hands to the brush as vCell:
\* RaycastPixelTarget(ray_start_pos, ray_dir, max_distance, intersection_result)
LocateTarget(g, player_pos, ray_dir, max2) ==
    Raycast("RaycastPixelTarget", g, player_pos, ray_dir, max2)

InitBlend ==
    /\ ray = Idle /\ px = Idle /\ ui = Idle
    /\ map \in BlendGrids
    /\ \E R \in 1..MaxBrush, B \in 0..MaxBlend, aim \in BlendAims :
           brush = [op |-> "none", pc |-> "ready", hit |-> FALSE,
                    brush_size |-> R, blend_range |-> B,
                    player_pos |-> aim[1], ray_dir |-> aim[2], max2 |-> BlendReach,
                    raycast_hit |-> LocateTarget(map, aim[1], aim[2], BlendReach).hit,
                    vCell |-> LocateTarget(map, aim[1], aim[2], BlendReach).intersection_result,
                    tx |-> 0, ty |-> 0, x |-> 0, y |-> 0,
                    buffer |-> Idle, sums |-> <<>>,
                    colour_sum |-> Rat(0, 1), buffered_values |-> <<>>,
                    start |-> map, written |-> {},
                    readAfterWrite |-> FALSE, readAfterAnyWrite |-> FALSE,
                    hWritten |-> {}, vWritten |-> {}, staleRead |-> FALSE]

BlendCall(variant) ==
    /\ brush.pc = "ready"
    /\ brush' = BlendBegin(variant, map, brush)
    /\ UNCHANGED <<map, ray, px, ui>>

CallBlendBallFractional == BlendCall("Naive")
CallBlendBallFractionalFast == BlendCall("Fast")
CallBlendBallFractionalFast2 == BlendCall("Fast2")

StepNaiveCompute ==
    /\ brush.pc = "NaiveCompute"
    /\ IF BufferFault(brush) THEN map' = map /\ brush' = [brush EXCEPT !.pc = "fault"]
       ELSE LET r == NaiveCompute(map, brush)
            IN  map' = r.map /\ brush' = NoteBuffer(brush, r.brush)
    /\ UNCHANGED <<ray, px, ui>>

StepNaiveApply ==
    /\ brush.pc = "NaiveApply"
    /\ IF BufferFault(brush) THEN map' = map /\ brush' = [brush EXCEPT !.pc = "fault"]
       ELSE LET r == NaiveApply(map, brush)
            IN  map' = r.map /\ brush' = NoteBuffer(brush, r.brush)
    /\ UNCHANGED <<ray, px, ui>>

StepFastSums ==
    /\ brush.pc = "FastSums"
    /\ LET r == FastSums(map, brush) IN map' = r.map /\ brush' = r.brush
    /\ UNCHANGED <<ray, px, ui>>

StepFastApply ==
    /\ brush.pc = "FastApply"
    /\ LET r == FastApply(map, brush) IN map' = r.map /\ brush' = r.brush
    /\ UNCHANGED <<ray, px, ui>>

StepFast2XBlur ==
    /\ brush.pc = "Fast2XBlur"
    /\ IF BufferFault(brush) THEN map' = map /\ brush' = [brush EXCEPT !.pc = "fault"]
       ELSE LET r == Fast2XBlur(map, brush)
            IN  map' = r.map /\ brush' = NoteBuffer(brush, r.brush)
    /\ UNCHANGED <<ray, px, ui>>

StepFast2YBlur ==
    /\ brush.pc = "Fast2YBlur"
    /\ IF BufferFault(brush) THEN map' = map /\ brush' = [brush EXCEPT !.pc = "fault"]
       ELSE LET r == Fast2YBlur(map, brush)
            IN  map' = r.map /\ brush' = NoteBuffer(brush, r.brush)
    /\ UNCHANGED <<ray, px, ui>>

StepFast2Paste ==
    /\ brush.pc = "Fast2Paste"
    /\ IF BufferFault(brush) THEN map' = map /\ brush' = [brush EXCEPT !.pc = "fault"]
       ELSE LET r == Fast2Paste(map, brush)
            IN  map' = r.map /\ brush' = NoteBuffer(brush, r.brush)
    /\ UNCHANGED <<ray, px, ui>>

NextBlend ==
    \/ CallBlendBallFractional
    \/ CallBlendBallFractionalFast
    \/ CallBlendBallFractionalFast2
    \/ StepNaiveCompute
    \/ StepNaiveApply
    \/ StepFastSums
    \/ StepFastApply
    \/ StepFast2XBlur
    \/ StepFast2YBlur
    \/ StepFast2Paste

SpecBlend == InitBlend /\ [][NextBlend]_vars

(* --------------------------- the frame loop --------------------------- *)
\* Times are whole ticks of 1/TicksPerSecond s.
\* float draw_speed = (2.0f / 60.0f)
draw_speed == (2 * TicksPerSecond) \div 60

EditModes == <<"CircleFull", "CircleFractional", "GaussFractional",
               "AdjustTerrain_BlendBallFull", "AdjustTerrain_BlendBallFractional">>

\* olc::HWButton of a mouse button: up, pressed this frame, or held since earlier
ButtonStates == {[bPressed |-> FALSE, bHeld |-> FALSE],
                 [bPressed |-> TRUE, bHeld |-> TRUE],
                 [bPressed |-> FALSE, bHeld |-> TRUE]}

\* the limiter with the gate opening at the threshold itself
EditGate_AtThreshold(u, fElapsedTime) ==
    IF u.accumulate_delta >= draw_speed
    THEN [u EXCEPT !.can_edit_terrain = TRUE]
    ELSE [u EXCEPT !.accumulate_delta = @ + fElapsedTime]

\* if (accumulate_delta > draw_speed) can_edit_terrain = true;
\* else accumulate_delta += fElapsedTime;
EditGate(u, fElapsedTime) ==
    IF u.accumulate_delta > draw_speed
    THEN [u EXCEPT !.can_edit_terrain = TRUE]
    ELSE [u EXCEPT !.accumulate_delta = @ + fElapsedTime]

\* keys 1-5, the lowest pressed key winning; key 0: none pressed
SelectMode(u, key) == IF key = 0 THEN u ELSE [u EXCEPT !.mode = EditModes[key]]

RightButtonEdits(ctrl, m1) == (ctrl /\ m1.bPressed) \/ (~ctrl /\ m1.bHeld)
LeftButtonEdits(ctrl, m0) == (ctrl /\ m0.bPressed) \/ (~ctrl /\ m0.bHeld)

\* the brush the switch of a mouse button calls
RightButtonBrush(mode) ==
    CASE mode = "CircleFull" -> "DestructTerrain_CircleFull"
      [] mode = "CircleFractional" -> "DestructTerrain_CircleFractional"
      [] mode = "GaussFractional" -> "DestructTerrain_GaussFractional"
      [] mode = "AdjustTerrain_BlendBallFull" -> "AdjustTerrain_BlendBallFractional"
      [] mode = "AdjustTerrain_BlendBallFractional" -> "AdjustTerrain_BlendBallFractionalFast2"
LeftButtonBrush(mode) ==
    CASE mode = "CircleFull" -> "DestructTerrain_CircleFull"
      [] mode = "CircleFractional" -> "DestructTerrain_CircleFractional"
      [] mode = "GaussFractional" -> "RestoreTerrain_GaussFractional"
      [] mode = "AdjustTerrain_BlendBallFull" -> "AdjustTerrain_BlendBallFractional"
      [] mode = "AdjustTerrain_BlendBallFractional" -> "AdjustTerrain_BlendBallFractional"

\* if (raycast_hit) { ... }: the brush called this frame, "none" if none is
Dispatch(u, raycast_hit, ctrl, m0, m1) ==
    IF ~raycast_hit THEN [u EXCEPT !.invoked = "none"]
    ELSE IF RightButtonEdits(ctrl, m1)
    THEN IF u.can_edit_terrain
         THEN [u EXCEPT !.can_edit_terrain = FALSE, !.accumulate_delta = 0,
                        !.invoked = RightButtonBrush(u.mode)]
         ELSE [u EXCEPT !.invoked = "none"]
    ELSE IF LeftButtonEdits(ctrl, m0)
    THEN IF u.can_edit_terrain
         THEN [u EXCEPT !.can_edit_terrain = FALSE, !.accumulate_delta = 0,
                        !.invoked = LeftButtonBrush(u.mode)]
         ELSE [u EXCEPT !.invoked = "none"]
    ELSE [u EXCEPT !.invoked = "none"]

\* The frame's bookkeeping for the claims: the frame time summed over the
\* frames since the last brush call (counted up to draw_speed + 1), whether an
\* edit button was down with the raycast hitting in each of them, and, in a
\* frame that calls a brush, the same two figures as gap and heldGap, with
\* gapBefore the sum without the calling frame's own time.
Bookkeep(old, u, fElapsedTime, editing) ==
    LET since == Min(old.since + fElapsedTime, draw_speed + 1)
        held  == old.held /\ editing
    IN  IF u.invoked = "none"
        THEN [u EXCEPT !.since = since, !.held = held, !.frames = Min(@ + 1, 3)]
        ELSE [u EXCEPT !.since = 0, !.held = TRUE, !.frames = 0, !.earlier = TRUE,
                       !.gap = IF old.earlier THEN since ELSE -1,
                       !.gapBefore = IF old.earlier THEN old.since ELSE -1,
                       !.heldGap = old.earlier /\ held,
                       !.gapFrames = Min(old.frames + 1, 3)]

\* The map, the player and the pointer are the environment of the frame loop:
\* whether the frame's RaycastPixelTarget hits is an input of the frame, like
\* the keys and the buttons.
InitUI ==
    /\ map = Idle /\ ray = Idle /\ px = Idle /\ brush = Idle
    /\ ui = [accumulate_delta |-> 0, can_edit_terrain |-> TRUE,
             mode |-> "AdjustTerrain_BlendBallFractional", invoked |-> "none",
             since |-> 0, held |-> TRUE, frames |-> 0, earlier |-> FALSE,
             gap |-> -1, gapBefore |-> -1, heldGap |-> FALSE, gapFrames |-> 0]

OnUserUpdate ==
    \E fElapsedTime \in 0..MaxDt, ctrl \in BOOLEAN, m0 \in ButtonStates, m1 \in ButtonStates,
       key \in 0..5, raycast_hit \in BOOLEAN :
        LET gated   == EditGate(ui, fElapsedTime)
            moded   == SelectMode(gated, key)
            called  == Dispatch(moded, raycast_hit, ctrl, m0, m1)
            editing == raycast_hit /\ (RightButtonEdits(ctrl, m1) \/ LeftButtonEdits(ctrl, m0))
        IN  /\ ui' = Bookkeep(ui, called, fElapsedTime, editing)
            /\ UNCHANGED <<map, ray, px, brush>>

NextUI == OnUserUpdate

SpecUI == InitUI /\ [][NextUI]_vars

(* --------------------------- the brush size --------------------------- *)
\* A float of 4 or more and below 256 is a whole number of steps of
\* 2^-21; brush_size_f is kept as that number.
FloatUnit == 2097152

\* float brush_size_min = 4.0f: the least radius the frame loop lets a brush have
brush_size_min == 4

\* float brush_size_max = 200.0f
brush_size_max == 200

\* float brush_size_multiplier = 1.1f: the float 9227469 * 2^-23
brush_size_multiplier == 9227469

\* the k with 2^(23+k) <= w < 2^(24+k): the spacing of the floats around w
\* steps is 2^k steps
Binade(w) == CHOOSE k \in 0..7 : 2^(23 + k) <= w /\ w < 2^(24 + k)

\* x * brush_size_multiplier in float arithmetic: the exact product, rounded
\* to the nearest float, a tie to the even one.  The product x * M is
\* H * 2^24 + L, put together from halves of 12 bits.
FloatMul(x) ==
    LET M  == brush_size_multiplier
        x1 == x \div 4096
        x0 == x % 4096
        m1 == M \div 4096
        m0 == M % 4096
        mid == x1 * m0 + x0 * m1
        low == (mid % 4096) * 4096 + x0 * m0
        H  == x1 * m1 + mid \div 4096 + low \div 2^24
        L  == low % 2^24
        w  == 2 * H + L \div 2^23
        k  == Binade(w)
        q  == IF k = 0 THEN w ELSE H \div 2^(k - 1)
        r  == IF k = 0 THEN L % 2^23 ELSE (H % 2^(k - 1)) * 2^24 + L
        up == 2 * r > 2^(23 + k) \/ (2 * r = 2^(23 + k) /\ q % 2 = 1)
    IN  (q + IF up THEN 1 ELSE 0) * 2^k

\* x / brush_size_multiplier in float arithmetic: the quotient x * 2^23 / M by
\* long division, rounded to the nearest float.  A quotient below 4 is left
\* as its whole part: the clamp replaces it.
FloatDiv(x) ==
    LET M  == brush_size_multiplier
        q1 == (x \div M) * 128 + ((x % M) * 128) \div M
        r1 == ((x % M) * 128) % M
        q2 == q1 * 128 + (r1 * 128) \div M
        r2 == (r1 * 128) % M
        q3 == q2 * 128 + (r2 * 128) \div M
        r3 == (r2 * 128) % M
        Q  == q3 * 4 + (r3 * 4) \div M
        R  == (r3 * 4) % M
        k  == Binade(Q)
        q  == Q \div 2^k
        low == Q % 2^k
        up == IF k = 0 THEN 2 * R > M
              ELSE low > 2^(k - 1) \/ (low = 2^(k - 1) /\ (R > 0 \/ q % 2 = 1))
    IN  IF Q < 2^23 THEN Q ELSE (q + IF up THEN 1 ELSE 0) * 2^k

\* the brush size left unclamped
ClampBrush_None(x) == x

\* std::clamp(brush_size_f, brush_size_min, brush_size_max)
ClampBrush(x) == Max(brush_size_min * FloatUnit, Min(x, brush_size_max * FloatUnit))

\* if (GetKey(olc::Key::CTRL).bHeld) { if (GetMouseWheel() > 0) ... else if
\* (GetMouseWheel() < 0) ... }
ScrollBrush(u, ctrl, wheel) ==
    LET scaled == IF wheel > 0 THEN FloatMul(u.brush_size_f) ELSE FloatDiv(u.brush_size_f)
        clamped == ClampBrush(scaled)
    IN  IF ctrl /\ wheel # 0
        THEN [u EXCEPT !.brush_size_f = clamped, !.brush_size = clamped \div FloatUnit]
        ELSE u

\* int brush_size = 16; float brush_size_f = brush_size;
InitScroll ==
    /\ map = Idle /\ ray = Idle /\ px = Idle /\ brush = Idle
    /\ ui = [brush_size_f |-> 16 * FloatUnit, brush_size |-> 16,
             ctrl |-> FALSE, wheel |-> 0, brush_size_before |-> 16]

\* The statements of a frame on the brush size; no other statement of the
\* program assigns brush_size_f or brush_size.  The frame's CTRL key and wheel
\* and the brush size before the frame are kept for the claims.
OnUserUpdate_BrushSize ==
    \E ctrl \in BOOLEAN, wheel \in {-1, 0, 1} :
        /\ ui' = [ScrollBrush(ui, ctrl, wheel) EXCEPT
                      !.ctrl = ctrl, !.wheel = wheel, !.brush_size_before = ui.brush_size]
        /\ UNCHANGED <<map, ray, px, brush>>

NextScroll == OnUserUpdate_BrushSize

SpecScroll == InitScroll /\ [][NextScroll]_vars

(* --------------------------- the cone sweeps -------------------------- *)
\* float terraform_angle = 50.0f, in degrees
terraform_angle == 50
\* float terraform_raycast_step = 0.5f, in degrees, as a fraction
terraform_raycast_step == [n |-> 1, d |-> 2]

\* An angle of a sweep is a whole number of 1/AngleDen degree.  Every angle
\* the configured loop reaches, -50, -49.5, ..., 50.5, is a float exactly, so
\* "i += step" adds without rounding.
AngleDen == terraform_raycast_step.d
cone_angle == terraform_angle * AngleDen
step == terraform_raycast_step.n

ConeVariants == <<"DestructTerrain_GaussFractional", "RestoreTerrain_GaussFractional">>

\* the loop running to the last angle below cone_angle only
ConeLoopCond_Exclusive(i) == i < cone_angle

\* i <= cone_angle
ConeLoopCond(i) == i <= cone_angle

Sgn(x) == IF x > 0 THEN 1 ELSE IF x < 0 THEN -1 ELSE 0

\* RotateVector(vec, AngleToRadians(i)): (x cos + y sin, -x sin + y cos), taken
\* to the nearest of the eight directions a cast of this model walks: a turn
\* of 0 or of 45 degrees to the side of i
RotateVector(vec, i) ==
    IF 2 * i > 45 * AngleDen THEN <<Sgn(vec[1] + vec[2]), Sgn(vec[2] - vec[1])>>
    ELSE IF 2 * i < -45 * AngleDen THEN <<Sgn(vec[1] - vec[2]), Sgn(vec[1] + vec[2])>>
    ELSE vec

\* (value - in_min) * (out_max - out_min) / (in_max - in_min) + out_min
MapValue(value, in_min, in_max, out_min, out_max) ==
    [n |-> (value - in_min) * (out_max - out_min) + out_min * (in_max - in_min),
     d |-> in_max - in_min]

\* pow(M_E, -x * x) at x = k/100, k = 0..100, in 1/GaussDen
GaussDen == 10000
GaussTable == <<
     10000, 9999, 9996, 9991, 9984, 9975, 9964, 9951, 9936, 9919,
     9900, 9880, 9857, 9832, 9806, 9778, 9747, 9715, 9681, 9645,
     9608, 9569, 9528, 9485, 9440, 9394, 9346, 9297, 9246, 9193,
     9139, 9084, 9027, 8968, 8908, 8847, 8784, 8721, 8655, 8589,
     8521, 8453, 8383, 8312, 8240, 8167, 8093, 8018, 7942, 7865,
     7788, 7710, 7631, 7551, 7471, 7390, 7308, 7226, 7143, 7060,
     6977, 6893, 6809, 6724, 6639, 6554, 6469, 6383, 6298, 6212,
     6126, 6040, 5955, 5869, 5783, 5698, 5612, 5527, 5442, 5357,
     5273, 5189, 5105, 5021, 4938, 4855, 4773, 4691, 4610, 4529,
     4449, 4369, 4290, 4211, 4133, 4056, 3979, 3903, 3827, 3753,
     3679 >>

\* GaussianCurve(x) for x = m.n/m.d a whole number of hundredths, over GaussDen
GaussianCurve(m) ==
    LET k == ((IF m.n < 0 THEN -m.n ELSE m.n) * 100) \div m.d
    IN  GaussTable[k + 1]

\* the amount of a ray with 0.4 taken off the curve
ConeValue_Less04(i) ==
    LET mapped == IF i < 0 THEN MapValue(i, -cone_angle, 0, -1, 0)
                  ELSE MapValue(i, 0, cone_angle, 0, 1)
    IN  GaussianCurve(mapped) - (4 * GaussDen) \div 10

\* value = GaussianCurve(mapped) - 0.3f, over GaussDen
ConeValue(i) ==
    LET mapped == IF i < 0 THEN MapValue(i, -cone_angle, 0, -1, 0)
                  ELSE MapValue(i, 0, cone_angle, 0, 1)
    IN  GaussianCurve(mapped) - (3 * GaussDen) \div 10

\* one iteration of the loop of a cone sweep: the cast at angle i and its edit
SweepRay(g, b) ==
    LET rotated_dir == RotateVector(b.ray_dir, b.i)
        destructive == b.op = "DestructTerrain_GaussFractional"
        rc == Raycast(IF destructive THEN "RaycastPixel" ELSE "RaycastPrePixel",
                      g, b.ray_start_pos, rotated_dir, b.max2)
        value == ConeValue(b.i)
        b1 == [b EXCEPT !.angles = Append(@, b.i), !.i = @ + step,
                        !.hits = @ + (IF rc.hit THEN 1 ELSE 0)]
    IN  IF ~rc.hit THEN [map |-> g, brush |-> b1]
        ELSE [map |-> IF destructive
                      THEN SubtractValueFromColour(g, rc.intersection_result, value, GaussDen)
                      ELSE AddValueToColour(g, rc.intersection_result, value, GaussDen),
              brush |-> b1]

ConeCells == CellsOf(ConeMapSize)
ConeMid == ConeMapSize \div 2
ConeGrids == {[c \in ConeCells |-> 0], [c \in ConeCells |-> MaxLevel],
              [c \in ConeCells |-> IF c = <<ConeMid, ConeMid>> THEN 0 ELSE MaxLevel],
              [c \in ConeCells |-> IF c[1] > ConeMid THEN MaxLevel ELSE 0],
              [c \in ConeCells |-> (37 * c[1] + 101 * c[2] + 5) % 256]}

InitCone ==
    /\ ray = Idle /\ px = Idle /\ ui = Idle
    /\ map \in ConeGrids
    /\ \E d \in Dirs, m2 \in {2, MaxDist2} :
           brush = [op |-> "none", pc |-> "ready", i |-> 0, angles |-> <<>>, hits |-> 0,
                    ray_start_pos |-> <<ConeMid, ConeMid>>, ray_dir |-> d, max2 |-> m2,
                    before |-> map]

ConeCall(variant) ==
    /\ brush.pc = "ready"
    /\ brush' = [brush EXCEPT !.op = variant, !.pc = "sweep", !.i = -cone_angle]
    /\ UNCHANGED <<map, ray, px, ui>>

CallDestructTerrain_GaussFractional == ConeCall("DestructTerrain_GaussFractional")
CallRestoreTerrain_GaussFractional == ConeCall("RestoreTerrain_GaussFractional")

StepSweepRay ==
    /\ brush.pc = "sweep" /\ ConeLoopCond(brush.i)
    /\ LET r == SweepRay(map, brush) IN map' = r.map /\ brush' = r.brush
    /\ UNCHANGED <<ray, px, ui>>

SweepReturn ==
    /\ brush.pc = "sweep" /\ ~ConeLoopCond(brush.i)
    /\ brush' = [brush EXCEPT !.pc = "done"]
    /\ UNCHANGED <<map, ray, px, ui>>

NextCone ==
    \/ CallDestructTerrain_GaussFractional
    \/ CallRestoreTerrain_GaussFractional
    \/ StepSweepRay
    \/ SweepReturn

SpecCone == InitCone /\ [][NextCone]_vars

(* ------------------------------- stamps ------------------------------- *)
\* floor of the square root
ISqrt(n) == CHOOSE k \in 0..n : k * k <= n /\ (k + 1) * (k + 1) > n

\* int(x - dc * (radius - 2) / |d|): one coordinate of pos -= direction *
\* (radius - 2) for the unit vector d/|d|, converted to an integer
\* coordinate by truncation toward zero
OffsetCoord(x, dc, d, radius) ==
    LET n == radius - 2
        a == IF n < 0 THEN -n ELSE n
        s == IF n < 0 THEN -dc ELSE dc
    IN  IF dc = 0 \/ n = 0 THEN x
        ELSE IF ~IsDiagonal(d) THEN x - s * a
        ELSE LET k == ISqrt((a * a) \div 2)
             IN  IF s > 0
                 THEN (IF x - k - 1 >= 0 THEN x - k - 1 ELSE x - k)
                 ELSE (IF x + k >= 0 THEN x + k ELSE x + k + 1)

StampCenter(vCell, d, radius) ==
    <<OffsetCoord(vCell[1], d[1], d, radius), OffsetCoord(vCell[2], d[2], d, radius)>>

Dist2(a, b) == (a[1] - b[1]) * (a[1] - b[1]) + (a[2] - b[2]) * (a[2] - b[2])

\* olc::PixelGameEngine::FillCircle on the draw target: every cell of the
\* target within the Euclidean radius of the centre is set
FillCircle(g, center, radius, level) ==
    [c \in DOMAIN g |-> IF Dist2(c, center) <= radius * radius THEN level ELSE g[c]]

\* the stamp drawn in white
DestructTerrain_CircleFull_White(g, vCell, d, radius) ==
    FillCircle(g, StampCenter(vCell, d, radius), radius, MaxLevel)

\* FillCircle(pos, radius, olc::BLACK)
DestructTerrain_CircleFull(g, vCell, d, radius) ==
    FillCircle(g, StampCenter(vCell, d, radius), radius, 0)

\* value = GaussianCurve(mapped) - 0.2f for mapped = distance / radius, over
\* GaussDen.  At distance 0 it is the float 1.0f - 0.2f, which lies above 0.8
\* by 1.2e-8: the step above 0.8 stands for it (the same level for every
\* stored level).  A ratio between two steps of the table (radius 3) takes the
\* value at the step below.
DiscValue(distance, radius) ==
    IF distance = 0 THEN (8 * GaussDen) \div 10 + 1
    ELSE GaussianCurve(MapValue(distance, 0, radius, 0, 1)) - (2 * GaussDen) \div 10

\* the offsets {i, j} in the order of the two loops
DiscOffsets(radius) ==
    LET w == 2 * radius + 1
    IN  [k \in 1..(w * w) |-> <<((k - 1) \div w) - radius, ((k - 1) % w) - radius>>]

\* the cell of pos + olc::vi2d{i, j} once converted to integer coordinates
DiscCell(vCell, d, radius, off) ==
    <<OffsetCoord(vCell[1] + off[1], d[1], d, radius),
      OffsetCoord(vCell[2] + off[2], d[2], d, radius)>>

\* int32_t distance = (olc::vi2d{0, 0} - olc::vi2d{i, j}).mag()
DiscDistance(off) == ISqrt(off[1] * off[1] + off[2] * off[2])

\* the offsets the two loops subtract at cell c, in their order: the ones that
\* pass "distance > radius" and whose position converts to c
DiscHits(c, vCell, d, radius) ==
    SelectSeq(DiscOffsets(radius),
              LAMBDA off : DiscDistance(off) <= radius /\ DiscCell(vCell, d, radius, off) = c)

\* SubtractValueFromColour(pos + olc::vi2d{i, j}, value) for the offsets of hits
RECURSIVE DiscSubtract(_, _, _, _)
DiscSubtract(g, c, radius, hits) ==
    IF hits = <<>> THEN g
    ELSE DiscSubtract(SubtractValueFromColour(g, c, DiscValue(DiscDistance(Head(hits)), radius),
                                              GaussDen),
                      c, radius, Tail(hits))

\* the two loops: a cell only depends on the subtractions made at it
DestructTerrain_CircleFractional(g, vCell, d, radius) ==
    [c \in DOMAIN g |-> DiscSubtract(g, c, radius, DiscHits(c, vCell, d, radius))[c]]

StampCells == CellsOf(StampMapSize)
StampGrids == {[c \in StampCells |-> 0], [c \in StampCells |-> MaxLevel],
               [c \in StampCells |-> (37 * c[1] + 101 * c[2] + 5) % 256]}
StampRadii == (1..MaxRadius) \cup {brush_size_min}

InitStamp ==
    /\ ray = Idle /\ px = Idle /\ ui = Idle
    /\ map \in StampGrids
    /\ brush = [op |-> "none"]

CallCircleFull ==
    \E vCell \in DOMAIN map, d \in Dirs, radius \in StampRadii :
        /\ brush.op = "none"
        /\ map' = DestructTerrain_CircleFull(map, vCell, d, radius)
        /\ brush' = [op |-> "CircleFull", vCell |-> vCell, dir |-> d, radius |-> radius,
                     center |-> StampCenter(vCell, d, radius), before |-> map]
        /\ UNCHANGED <<ray, px, ui>>

CallCircleFractional ==
    \E vCell \in DOMAIN map, d \in Dirs, radius \in StampRadii :
        /\ brush.op = "none"
        /\ map' = DestructTerrain_CircleFractional(map, vCell, d, radius)
        /\ brush' = [op |-> "CircleFractional", vCell |-> vCell, dir |-> d, radius |-> radius,
                     center |-> StampCenter(vCell, d, radius), before |-> map]
        /\ UNCHANGED <<ray, px, ui>>

NextStamp ==
    \/ CallCircleFull
    \/ CallCircleFractional

SpecStamp == InitStamp /\ [][NextStamp]_vars

(* ---------------------- carving and restoring ------------------------- *)
\* the stamps and the cone sweeps side by side: a run is of one or the other
InitCarve == InitStamp \/ InitCone

\* a run of a cone sweep has a position in its loop, a stamp has none
IsSweep == "pc" \in DOMAIN brush

NextCarve ==
    \/ ~IsSweep /\ CallCircleFull
    \/ ~IsSweep /\ CallCircleFractional
    \/ IsSweep /\ CallDestructTerrain_GaussFractional
    \/ IsSweep /\ CallRestoreTerrain_GaussFractional
    \/ IsSweep /\ StepSweepRay
    \/ IsSweep /\ SweepReturn

SpecCarve == InitCarve /\ [][NextCarve]_vars

(* ------------------------- the frames on a map ------------------------ *)
\* The frame loop with the map, the player and the pointer.  mouse_pos is kept
\* relative to player_pos: ray_dir is the direction of mouse_pos - player_pos
\* and max2 its length in half cells.  A run follows the frames up to the
\* first brush call and follows that call to its return.

\* int32_t radius = 32 of PaintMouseLocation
PaintRadius == 32

\* float raycast_max_distance = 500.0f
raycast_max_distance == 500

PlayerCells == (-1..FrameMapSize) \X (-1..FrameMapSize)
FrameAims == Dirs \X {2, MaxDist2}

\* one coordinate of olc::vi2d(mouse_pos), mouse_pos = player_pos + (max2/2) d/|d|
MouseCoord(x, dc, d, max2) ==
    LET k == ISqrt((max2 * max2) \div 8)
        n == 2 * x + dc * max2
    IN  IF dc = 0 THEN x
        ELSE IF ~IsDiagonal(d) THEN (IF n >= 0 THEN n \div 2 ELSE -((-n) \div 2))
        ELSE IF dc > 0 THEN (IF x + k >= 0 THEN x + k ELSE x + k + 1)
        ELSE (IF x - k - 1 >= 0 THEN x - k - 1 ELSE x - k)

\* FillCircle(vCell, radius) of PaintMouseLocation, in the default colour white
PaintMouseLocation(g, u) ==
    FillCircle(g, <<MouseCoord(u.player_pos[1], u.ray_dir[1], u.ray_dir, u.max2),
                    MouseCoord(u.player_pos[2], u.ray_dir[2], u.ray_dir, u.max2)>>,
               PaintRadius, MaxLevel)

\* The keys, the buttons and the pointer of one frame.  A frame has CTRL up or
\* down and at most one more thing happening: a mouse button, ENTER, a mode
\* key, a W/A/S/D step of one cell that the pointer follows, or a new pointer
\* position.
Quiet == [ctrl |-> FALSE, m0 |-> [bPressed |-> FALSE, bHeld |-> FALSE],
          m1 |-> [bPressed |-> FALSE, bHeld |-> FALSE], m2 |-> FALSE, enter |-> FALSE,
          key |-> 0, move |-> <<0, 0>>, aim |-> <<>>]
FrameEvents ==
    UNION {{[Quiet EXCEPT !.ctrl = c]}
           \cup {[Quiet EXCEPT !.ctrl = c, !.m0 = b] : b \in ButtonStates}
           \cup {[Quiet EXCEPT !.ctrl = c, !.m1 = b] : b \in ButtonStates}
           \cup {[Quiet EXCEPT !.ctrl = c, !.m2 = TRUE],
                 [Quiet EXCEPT !.ctrl = c, !.enter = TRUE]}
           \cup {[Quiet EXCEPT !.ctrl = c, !.key = k] : k \in 1..5}
           \cup {[Quiet EXCEPT !.ctrl = c, !.move = d] : d \in AxisDirs}
           \cup {[Quiet EXCEPT !.ctrl = c, !.aim = a] : a \in FrameAims} : c \in BOOLEAN}

\* the members after OnUserCreate, the brush scrolled down to brush_size_min:
\* the map reset, the player in the middle of the map, mouse_pos at (0, 0)
InitFrame ==
    /\ ray = Idle /\ px = Idle /\ brush = Idle
    /\ map = ResetMap([c \in CellsOf(FrameMapSize) |-> MaxLevel])
    /\ ui = [player_pos |-> <<FrameMapSize \div 2, FrameMapSize \div 2>>,
             ray_dir |-> <<-1, -1>>,
             max2 |-> Max(1, ISqrt(8 * (FrameMapSize \div 2) * (FrameMapSize \div 2))),
             mode |-> "AdjustTerrain_BlendBallFractional",
             accumulate_delta |-> 0, can_edit_terrain |-> TRUE,
             brush_size |-> brush_size_min, blend_range |-> MaxBlend,
             raycast_hit |-> FALSE, invoked |-> "none",
             emptied |-> TRUE, painted |-> FALSE, editing |-> FALSE]

\* the call of a brush: its arguments and the locals of its first statement
BrushCall(name, g, u, vCell, direction) ==
    CASE name = "DestructTerrain_CircleFull" ->
             [op |-> name, pc |-> "stamp", vCell |-> vCell, dir |-> direction,
              radius |-> u.brush_size, before |-> g]
      [] name = "DestructTerrain_CircleFractional" ->
             [op |-> name, pc |-> "stamp", vCell |-> vCell, dir |-> direction,
              radius |-> u.brush_size, before |-> g]
      [] name \in {ConeVariants[1], ConeVariants[2]} ->
             [op |-> name, pc |-> "sweep", i |-> -cone_angle, angles |-> <<>>, hits |-> 0,
              ray_start_pos |-> u.player_pos, ray_dir |-> u.ray_dir, max2 |-> u.max2,
              before |-> g]
      [] OTHER ->
             BlendBegin(IF name = "AdjustTerrain_BlendBallFractional" THEN "Naive" ELSE "Fast2",
                        g,
                        [op |-> "none", pc |-> "ready", hit |-> FALSE,
                         brush_size |-> u.brush_size, blend_range |-> u.blend_range,
                         player_pos |-> u.player_pos, ray_dir |-> u.ray_dir, max2 |-> u.max2,
                         raycast_hit |-> TRUE, vCell |-> vCell,
                         tx |-> 0, ty |-> 0, x |-> 0, y |-> 0,
                         buffer |-> Idle, sums |-> <<>>,
                         colour_sum |-> Rat(0, 1), buffered_values |-> <<>>,
                         start |-> g, written |-> {},
                         readAfterWrite |-> FALSE, readAfterAnyWrite |-> FALSE,
                         hWritten |-> {}, vWritten |-> {}, staleRead |-> FALSE])

\* OnUserUpdate up to the call of a brush
Frame ==
    /\ brush = Idle
    /\ \E ev \in FrameEvents :
        LET fElapsedTime == MaxDt
            gated  == EditGate(ui, fElapsedTime)
            \* the cast of this frame: from player_pos along the direction of
            \* the pointer as the last frame left them
            ray_start_pos == ui.player_pos
            ray_dir == ui.ray_dir
            aimed  == IF ev.aim = <<>> THEN gated
                      ELSE [gated EXCEPT !.ray_dir = ev.aim[1], !.max2 = ev.aim[2]]
            paints == ev.ctrl /\ ev.m2
            painted == IF paints THEN PaintMouseLocation(map, aimed) ELSE map
            g      == IF ev.enter THEN ResetMap(painted) ELSE painted
            moved  == [aimed EXCEPT !.player_pos = <<@[1] + ev.move[1], @[2] + ev.move[2]>>]
            moded  == SelectMode(moved, ev.key)
            max_distance == Min(2 * raycast_max_distance, moded.max2)
        IN  \E rc \in {LocateTarget(g, ray_start_pos, ray_dir, max_distance)} :
            \E called \in {Dispatch(moded, rc.hit, ev.ctrl, ev.m0, ev.m1)} :
                /\ called.player_pos \in PlayerCells
                /\ ui' = [called EXCEPT
                              !.raycast_hit = rc.hit,
                              !.emptied = IF ev.enter THEN TRUE ELSE IF paints THEN FALSE ELSE @,
                              !.painted = @ \/ paints,
                              !.editing = RightButtonEdits(ev.ctrl, ev.m1)
                                              \/ LeftButtonEdits(ev.ctrl, ev.m0)]
                /\ map' = g
                /\ brush' = IF called.invoked = "none" THEN Idle
                            ELSE BrushCall(called.invoked, g, called, rc.intersection_result,
                                           ray_dir)
                /\ UNCHANGED <<ray, px>>

\* the body of a stamp
RunStamp ==
    /\ brush.pc = "stamp"
    /\ map' = IF brush.op = "DestructTerrain_CircleFull"
              THEN DestructTerrain_CircleFull(map, brush.vCell, brush.dir, brush.radius)
              ELSE DestructTerrain_CircleFractional(map, brush.vCell, brush.dir, brush.radius)
    /\ brush' = [brush EXCEPT !.pc = "done"]
    /\ UNCHANGED <<ray, px, ui>>

NextFrame ==
    \/ Frame
    \/ RunStamp
    \/ StepSweepRay
    \/ SweepReturn
    \/ StepNaiveCompute
    \/ StepNaiveApply
    \/ StepFast2XBlur
    \/ StepFast2YBlur
    \/ StepFast2Paste

SpecFrame == InitFrame /\ [][NextFrame]_vars

(* ----------------------- claims on the raycasts ----------------------- *)
RayDone == ray.pc = "done"
InMap(pos) == InBounds(map, pos)

\* the k-th cell of the straight walk from o in direction d
WalkCell(o, d, k) == <<o[1] + k * d[1], o[2] + k * d[2]>>

\* unit steps travelled when an axis-aligned walk enters its k-th cell: the
\* integer origin sits on the low corner of its cell, so a walk in a negative
\* direction enters its first cell at distance 0
EntryDist(d, k) == IF k = 0 THEN 0 ELSE IF d[1] + d[2] > 0 THEN k ELSE k - 1

\* the walk reaches its k-th cell: it was still within max_distance in the cell before
Reached(d, m2, k) == k >= 1 /\ DistanceLess(EntryDist(d, k - 1), d, m2)

WalkBound == MaxDist2 + 2
ReachedSteps(d, m2) == {k \in 1..WalkBound : Reached(d, m2, k)}
SolidSteps(g, o, d, m2) ==
    {k \in ReachedSteps(d, m2) : InMap(WalkCell(o, d, k)) /\ GetPixel(g, WalkCell(o, d, k)) # 0}
MinOf(S) == CHOOSE k \in S : \A j \in S : k <= j
MaxOf(S) == CHOOSE k \in S : \A j \in S : k >= j

\* C1: RaycastPixel along an axis: if a non-empty in-bounds cell is among the
\* cells the walk reaches within max_distance, the cast hits and reports the
\* first of them in walk order; otherwise it misses and reports the last cell
\* the walk reached (the origin when it reached none).
C1_FirstSolid ==
    (RayDone /\ ray.variant = "RaycastPixel" /\ ray.ray_dir \in AxisDirs) =>
        LET o == ray.ray_start_pos
            d == ray.ray_dir
            S == SolidSteps(map, o, d, ray.max2)
            R == ReachedSteps(d, ray.max2)
        IN  IF S # {}
            THEN ray.hit /\ ray.intersection_result = WalkCell(o, d, MinOf(S))
            ELSE /\ ~ray.hit
                 /\ ray.intersection_result = (IF R = {} THEN o ELSE WalkCell(o, d, MaxOf(R)))

\* a single solid cell two or more cells ahead on the row is found
C1_Witness ==
    /\ RayDone /\ ray.variant = "RaycastPixel" /\ ray.ray_dir = <<1, 0>>
    /\ ray.hit
    /\ Cardinality({c \in DOMAIN map : map[c] # 0}) = 1
    /\ ray.intersection_result[1] >= ray.ray_start_pos[1] + 2
    /\ ray.intersection_result[2] = ray.ray_start_pos[2]
    /\ map[ray.intersection_result] # 0

OutOfBoundsSeen(r) ==
    ~InMap(r.ray_start_pos) \/ \E i \in 1..Len(r.walk) : ~InMap(r.walk[i])

\* C2 as stated: once the walk has been outside the grid (the origin included)
\* the cast reports no hit and walks no further.
C2_StopsOutOfBounds ==
    RayDone =>
        /\ OutOfBoundsSeen(ray) => ~ray.hit
        /\ \A i \in 1..Len(ray.walk) : ~InMap(ray.walk[i]) => i = Len(ray.walk)

\* C2 amended: no variant tests a cell outside the grid or reports a hit
\* there; a walk that starts inside the grid and leaves it never comes back
\* and returns hit=false.
C2_NoTestOutOfBounds ==
    /\ \A i \in 1..Len(ray.tested) : InMap(ray.tested[i])
    /\ ray.bTileFound => InMap(ray.vMapCheck)
    /\ Len(ray.tested) = Cardinality({i \in 1..Len(ray.walk) : InMap(ray.walk[i])})
    /\ (InMap(ray.ray_start_pos) /\ OutOfBoundsSeen(ray)) =>
           /\ ~ray.bTileFound
           /\ \A i, j \in 1..Len(ray.walk) :
                  (i < j /\ ~InMap(ray.walk[i])) => ~InMap(ray.walk[j])

\* a walk from inside the grid has stepped outside and gone on walking
C2_Witness ==
    /\ RayDone /\ InMap(ray.ray_start_pos) /\ ~ray.hit
    /\ Len(ray.walk) >= 3
    /\ ~InMap(ray.walk[Len(ray.walk) - 1])
    /\ Len(ray.tested) >= 1

\* the cell visited immediately before the last one (the origin after one step)
CellBeforeLast(r) ==
    IF Len(r.walk) >= 2 THEN r.walk[Len(r.walk) - 1] ELSE r.ray_start_pos
LastCell(r) == IF Len(r.walk) >= 1 THEN r.walk[Len(r.walk)] ELSE r.ray_start_pos

SameWalkAsPixel(g, r) ==
    LET p == Raycast("RaycastPixel", g, r.ray_start_pos, r.ray_dir, r.max2)
    IN  p.walk = r.walk /\ p.hit = r.hit

\* C3 as stated: RaycastPrePixel walks as RaycastPixel does, reports the cell
\* before the stopping cell whenever it hits (any density 1..255), and the
\* final cell when it misses.
C3_PreCellOnEveryHit ==
    (RayDone /\ ray.variant = "RaycastPrePixel") =>
        /\ SameWalkAsPixel(map, ray)
        /\ ray.hit => ray.intersection_result = CellBeforeLast(ray)
        /\ ~ray.hit => ray.intersection_result = LastCell(ray)

\* C3 amended: RaycastPrePixel walks as RaycastPixel does; on a hit it reports
\* the cell before the stopping cell when the stopping cell is full (255) and
\* the stopping cell itself when it is partly filled (1..254); on a miss it
\* reports the final cell.
C3_PreCellOnFullHit ==
    (RayDone /\ ray.variant = "RaycastPrePixel") =>
        /\ SameWalkAsPixel(map, ray)
        /\ (ray.hit /\ map[LastCell(ray)] = MaxLevel) =>
               ray.intersection_result = CellBeforeLast(ray)
        /\ (ray.hit /\ map[LastCell(ray)] # MaxLevel) =>
               ray.intersection_result = LastCell(ray)
        /\ ~ray.hit => ray.intersection_result = LastCell(ray)

\* a hit on a full cell after at least two steps reports the cell before it
C3_Witness ==
    /\ RayDone /\ ray.variant = "RaycastPrePixel" /\ ray.hit
    /\ Len(ray.walk) >= 2
    /\ map[LastCell(ray)] = MaxLevel
    /\ ray.intersection_result = ray.walk[Len(ray.walk) - 1]


\* fDistance when the walk entered the cell it stopped at
LastEntered(r) == r.entered[Len(r.entered)]

\* C18: whenever a variant returns hit = true, the walk entered the stopping
\* cell at a distance below max_distance; a cell entered at max_distance or
\* beyond is never reported as a hit.
C18_HitWithinRange ==
    (RayDone /\ ray.hit) => DistanceLess(LastEntered(ray), ray.ray_dir, ray.max2)

\* a cast along the row with max_distance 0.5 has hit the next cell, which the
\* ray enters at distance 1
C18_Witness ==
    /\ RayDone /\ ray.hit /\ ray.variant = "RaycastPixelTarget"
    /\ ray.ray_start_pos = <<0, 0>> /\ ray.ray_dir = <<1, 0>> /\ ray.max2 = 1
    /\ ray.intersection_result = <<1, 0>> /\ LastEntered(ray) = 1

\* the occupancy test of the loop was never applied to the origin cell
OriginUntested(r) == \A k \in 1..Len(r.tested) : r.tested[k] # r.ray_start_pos

\* a cast that made no step: no cell entered, none tested, hit = false and
\* the origin reported
NoStepCast(r) ==
    /\ r.walk = <<>> /\ r.tested = <<>>
    /\ ~r.hit /\ r.intersection_result = r.ray_start_pos

\* C19 as stated: no variant applies its occupancy test to the origin cell or
\* returns hit = true together with the origin cell, and a cast with
\* max_distance <= 0 makes no step, tests no cell and returns hit = false
\* with the origin cell.
C19_OriginNeverReported ==
    RayDone =>
        /\ OriginUntested(ray)
        /\ ray.hit => ray.intersection_result # ray.ray_start_pos
        /\ ray.max2 <= 0 => NoStepCast(ray)

\* C19, amended: no variant applies its occupancy test to the origin cell, so
\* the cell that made hit = true is never the origin; RaycastPixel and
\* RaycastPixelTarget never return the origin with hit = true, RaycastPrePixel
\* returns it exactly when the first cell of the walk is full; a cast with
\* max_distance <= 0 makes no step, tests no cell and returns hit = false
\* with the origin cell.
C19_OriginNeverTested ==
    RayDone =>
        /\ OriginUntested(ray)
        /\ ray.hit =>
              /\ ray.vMapCheck # ray.ray_start_pos
              /\ ray.intersection_result = ray.ray_start_pos <=>
                    /\ ray.variant = "RaycastPrePixel"
                    /\ Len(ray.walk) = 1
                    /\ MapLocationIsFull(map, ray.vMapCheck)
        /\ ray.max2 <= 0 => NoStepCast(ray)

\* a cast from a non-empty cell of the map has hit a cell further on
C19_Witness ==
    /\ RayDone /\ ray.hit
    /\ InMap(ray.ray_start_pos) /\ ~MapLocationIsEmpty(map, ray.ray_start_pos)
    /\ Len(ray.walk) >= 2
    /\ ray.intersection_result = ray.vMapCheck

(* ------------------- claims on the colour accessors ------------------- *)
PixelHit == px # Idle /\ px.op # "none" /\ InBounds(map, px.pos)

\* C7: after any sequence of SetColourValue, SubtractValueFromColour and
\* AddValueToColour calls every cell holds a level in 0..255, and a call does
\* not wrap: a result below 0 is stored as 0, a result above 1 as 255, and a
\* non-negative fraction never raises a cell by subtraction or lowers it by
\* addition.
C7_DensityClamped ==
    /\ \A c \in DOMAIN map : map[c] \in Levels
    /\ (PixelHit /\ px.op = "SetColourValue") =>
           /\ px.num <= 0 => map[px.pos] = 0
           /\ px.num >= px.den => map[px.pos] = MaxLevel
    /\ (PixelHit /\ px.op = "SubtractValueFromColour") =>
           /\ px.num >= 0 => map[px.pos] <= px.before
           /\ px.num <= 0 => map[px.pos] >= px.before
           /\ MaxLevel * px.num >= px.before * px.den => map[px.pos] = 0
           /\ px.before * px.den - MaxLevel * px.num >= MaxLevel * px.den => map[px.pos] = MaxLevel
    /\ (PixelHit /\ px.op = "AddValueToColour") =>
           /\ px.num >= 0 => map[px.pos] >= px.before
           /\ px.num <= 0 => map[px.pos] <= px.before
           /\ px.before * px.den + MaxLevel * px.num <= 0 => map[px.pos] = 0
           /\ px.before * px.den + MaxLevel * px.num >= MaxLevel * px.den => map[px.pos] = MaxLevel

\* a partly filled cell has been driven to 0 by subtracting far more than it held
C7_Witness ==
    /\ PixelHit /\ px.op = "SubtractValueFromColour"
    /\ px.num > px.den /\ px.before \in 1..(MaxLevel - 1)
    /\ map[px.pos] = 0

(* ------------------------ claims on the blends ------------------------ *)
BlendDone == brush.pc = "done"
BlendHit == BlendDone /\ brush.hit

\* the side of the square a variant samples around the hit cell
SampleHalf(variant) ==
    brush.brush_size + (IF variant = "Fast" THEN FastBlendRange ELSE brush.blend_range)
SampledInMap(variant) ==
    /\ InMap(<<brush.tx - SampleHalf(variant), brush.ty - SampleHalf(variant)>>)
    /\ InMap(<<brush.tx + SampleHalf(variant), brush.ty + SampleHalf(variant)>>)

\* the level a cell has after a variant, computed from the grid at the call alone
ExpectedLevel(variant, g0, c) ==
    LET R  == brush.brush_size
        B  == brush.blend_range
        dx == c[1] - brush.tx
        dy == c[2] - brush.ty
        d2 == dx * dx + dy * dy
        half == R + FastBlendRange
        x1 == Max(dx - FastBlendRange, -half)
        x2 == Min(dx + FastBlendRange, half)
        y1 == Max(dy - FastBlendRange, -half)
        y2 == Min(dy + FastBlendRange, half)
    IN  IF variant = "Fast"
        THEN IF dx \in -half..half /\ dy \in -half..half
             THEN BlendLevel(g0[c],
                             BoxSum(g0, brush.tx + x1, brush.tx + x2, brush.ty + y1, brush.ty + y2),
                             (x2 - x1 + 1) * (y2 - y1 + 1),
                             R * R - Max(R * R - 2 * d2, 0), R * R)
             ELSE g0[c]
        ELSE IF d2 < R * R
             THEN BlendLevel(g0[c],
                             BoxSum(g0, c[1] - B, c[1] + B, c[2] - B, c[2] + B),
                             (2 * B + 1) * (2 * B + 1),
                             Max(2 * d2 - R * R, 0), R * R)
             ELSE g0[c]

\* the grid a variant leaves when called on the grid the run started from
FinalGridOf(variant) == [c \in DOMAIN map |-> ExpectedLevel(variant, brush.start, c)]

\* C5 (as claimed): from the same grid, player, pointer, brush radius and blend
\* range, the three BlendBall variants leave the same final grid, cell for cell.
C5_SameFinalGrid ==
    BlendHit => \A v \in {"Naive", "Fast", "Fast2"} : FinalGridOf(v) = map

\* what does hold: the naive and the separable variant agree cell for cell
C5_NaiveAndFast2Agree ==
    (BlendHit /\ brush.op # "Fast") => (FinalGridOf("Naive") = map /\ FinalGridOf("Fast2") = map)

C5_Witness == BlendHit /\ brush.op = "Fast" /\ brush.written # {} /\ FinalGridOf("Naive") # map

\* the cells whose level the invocation changed, and a disc of the brush
ChangedCells == {c \in DOMAIN map : map[c] # brush.start[c]}
InDisc(c, center) == Dist2(c, center) < brush.brush_size * brush.brush_size

\* C11 (as claimed): a BlendBall the frame dispatches with the hit cell of its
\* RaycastPixelTarget is centred on that cell: every cell it changes lies in
\* the disc of brush_size around vCell.
C11_CenteredOnGivenHit ==
    (BlendHit /\ brush.raycast_hit /\ brush.op # "Fast") =>
        /\ <<brush.tx, brush.ty>> = brush.vCell
        /\ \A c \in ChangedCells : InDisc(c, brush.vCell)

\* a dispatched blend that changed a cell outside the disc around vCell
C11_Witness ==
    /\ BlendHit /\ brush.raycast_hit /\ brush.op = "Fast2"
    /\ <<brush.tx, brush.ty>> # brush.vCell
    /\ \E c \in ChangedCells : ~InDisc(c, brush.vCell)

\* C12: after a BlendBall variant, every cell at a squared distance of at
\* least brush_size^2 from the centre of the brush, the hit cell of the
\* variant's own cast, holds the level it held before.
C12_OutsideDiscUntouched ==
    BlendHit => \A c \in DOMAIN map :
                    ~InDisc(c, <<brush.tx, brush.ty>>) => map[c] = brush.start[c]

\* a run that wrote cells outside the disc, changed cells inside it and kept the rest
C12_Witness ==
    /\ BlendHit /\ brush.op = "Naive" /\ ChangedCells # {}
    /\ \E c \in brush.written : ~InDisc(c, <<brush.tx, brush.ty>>) /\ brush.start[c] \notin {0, MaxLevel}

\* C13: every BlockBuffer get and set of the naive and of the separable variant
\* lies inside the window of the buffer, and every cell the vertical pass of
\* the separable variant gets was set by the horizontal pass and not yet by
\* the vertical pass.
C13_BufferInWindow ==
    /\ brush.pc # "fault"
    /\ ~brush.staleRead
    /\ brush.pc \in {"NaiveCompute", "NaiveApply", "Fast2XBlur", "Fast2YBlur", "Fast2Paste"} =>
           ~BufferFault(brush)

\* a finished separable run whose vertical pass has set every cell of the brush
\* square, with the margin rows set by the horizontal pass only
C13_Witness ==
    /\ BlendHit /\ brush.op = "Fast2" /\ brush.blend_range > 0
    /\ brush.vWritten = Box(-brush.brush_size, brush.brush_size, -brush.brush_size, brush.brush_size)
    /\ brush.vWritten # brush.hWritten /\ brush.vWritten \subseteq brush.hWritten

IsUniform(g, v) == \A c \in DOMAIN g : g[c] = v

\* C6 (as claimed): on a grid whose cells all hold the level v, a BlendBall
\* variant leaves every cell it writes at v.
C6_UniformFixedPoint ==
    \A v \in Levels :
        (BlendDone /\ IsUniform(brush.start, v)) => \A c \in brush.written : map[c] = v

\* the level of EaseInOutCubic(v/255), the level the hit cell of a uniform grid gets
EasedLevel(v) == BlendLevel(v, v, 1, 0, 1)

\* C6 (amended): on a uniform grid of level v whose sampled square lies in the
\* map, every variant leaves the hit cell at the level of EaseInOutCubic(v),
\* and leaves the whole grid as it was when that level is v itself, which
\* among the 8-bit levels it is for 0, 128, 254 and 255 only.
C6_UniformEasedFixedPoint ==
    BlendHit =>
        /\ \A v \in Levels :
               (IsUniform(brush.start, v) /\ SampledInMap(brush.op)) =>
                   /\ map[<<brush.tx, brush.ty>>] = EasedLevel(v)
                   /\ (EasedLevel(v) = v => map = brush.start)
        /\ {v \in Levels : EasedLevel(v) = v} = {0, 128, 254, MaxLevel}

C6_Witness ==
    /\ BlendHit /\ IsUniform(brush.start, 128) /\ SampledInMap(brush.op)
    /\ brush.op = "Fast2" /\ Cardinality(brush.written) > 1

C8_OneEditPerInterval ==
    (ui.invoked # "none" /\ ui.gap # -1) =>
        (ui.gapBefore > draw_speed /\ ui.gap >= ui.gapBefore)

\* a second call at the shortest gap, the button down and the raycast hitting
\* in every frame between
C8_Witness ==
    /\ ui.invoked # "none" /\ ui.heldGap
    /\ ui.gap = draw_speed + 1 /\ ui.gapFrames >= 2

(* ---------------------- claims on the cone sweeps --------------------- *)
ConeDone == brush.pc = "done"
\* floor(2A/s) + 1 for the half-angle A and the step s of the sweep
ConeRays == (2 * cone_angle) \div step + 1

\* C9: a cone sweep casts floor(2A/s) + 1 rays, the k-th at the angle
\* -A + (k-1) s, the first at -A and the last at +A: 201 rays as configured.
C9_RayCount ==
    ConeDone =>
        /\ Len(brush.angles) = ConeRays
        /\ ConeRays = 201
        /\ \A k \in 1..Len(brush.angles) : brush.angles[k] = -cone_angle + (k - 1) * step
        /\ brush.angles[Len(brush.angles)] = cone_angle

C9_Witness ==
    /\ ConeDone /\ brush.op = "RestoreTerrain_GaussFractional"
    /\ brush.hits > 0 /\ brush.hits < Len(brush.angles) /\ map # brush.before

(* ------------------------ claims on the stamps ------------------------ *)
CircleFullDone == brush # Idle /\ brush.op = "CircleFull"

\* C4 as stated: on an all-empty grid CircleFull leaves every cell within the
\* radius of the stamp centre at density 1.0 (level 255) and the cells at
\* distance radius + 1 or more at 0.
C4_FilledToFull ==
    (CircleFullDone /\ \A c \in DOMAIN map : brush.before[c] = 0) =>
        \A c \in DOMAIN map :
            /\ Dist2(c, brush.center) <= brush.radius * brush.radius => map[c] = MaxLevel
            /\ Dist2(c, brush.center) >= (brush.radius + 1) * (brush.radius + 1) => map[c] = 0

\* C4 amended: CircleFull leaves every cell within the radius of the stamp
\* centre at density 0 (empty) and every cell at distance radius + 1 or more
\* as it was.
C4_CarvedToEmpty ==
    CircleFullDone =>
        \A c \in DOMAIN map :
            /\ Dist2(c, brush.center) <= brush.radius * brush.radius => map[c] = 0
            /\ Dist2(c, brush.center) >= (brush.radius + 1) * (brush.radius + 1) =>
                   map[c] = brush.before[c]

\* a stamp inside a full grid has emptied its disc and left a cell at distance
\* radius + 1 full
C4_Witness ==
    /\ CircleFullDone
    /\ \A c \in DOMAIN map : brush.before[c] = MaxLevel
    /\ InBounds(map, brush.center) /\ map[brush.center] = 0
    /\ \E c \in DOMAIN map :
           Dist2(c, brush.center) = brush.radius * brush.radius /\ map[c] = 0
    /\ \E c \in DOMAIN map :
           Dist2(c, brush.center) = (brush.radius + 1) * (brush.radius + 1) /\ map[c] = MaxLevel


CircleFractionalDone == brush.op = "CircleFractional"
StampChanged == {c \in DOMAIN map : map[c] # brush.before[c]}
\* the cells of the offsets within the Euclidean radius
EuclidDisc ==
    {DiscCell(brush.vCell, brush.dir, brush.radius, <<i, j>>) :
        <<i, j>> \in {o \in (-brush.radius..brush.radius) \X (-brush.radius..brush.radius) :
                         o[1] * o[1] + o[2] * o[2] <= brush.radius * brush.radius}}

\* C14: DestructTerrain_CircleFractional changes only cells whose offset (i, j)
\* from the stamp centre has sqrt(i^2 + j^2) <= radius; the other cells keep
\* their density.
C14_OnlyWithinRadius == CircleFractionalDone => StampChanged \subseteq EuclidDisc

\* the least brush, direction east, centre on the map: the cell at offset
\* (4, 1), at distance sqrt(17) > 4, has lost density
C14_Witness ==
    /\ CircleFractionalDone /\ brush.radius = brush_size_min /\ brush.dir = <<1, 0>>
    /\ brush.center = <<0, 0>> /\ <<4, 1>> \notin EuclidDisc
    /\ brush.before[<<4, 1>>] = MaxLevel /\ map[<<4, 1>>] < MaxLevel


(* ---------------------- claims on the brush size ---------------------- *)
\* C15: after any sequence of frames brush_size_f lies within brush_size_min
\* and brush_size_max, brush_size is its floor and lies within 4..200, and a
\* frame without CTRL leaves brush_size as it was, whatever the wheel did.
C15_BrushSizeBounded ==
    /\ ui.brush_size_f >= brush_size_min * FloatUnit
    /\ ui.brush_size_f <= brush_size_max * FloatUnit
    /\ ui.brush_size = ui.brush_size_f \div FloatUnit
    /\ ui.brush_size \in brush_size_min..brush_size_max
    /\ ~ui.ctrl => ui.brush_size = ui.brush_size_before

\* the brush scrolled up against the upper limit: a frame that took
\* brush_size from 199 to 200
C15_Witness ==
    /\ ui.ctrl /\ ui.wheel > 0
    /\ ui.brush_size_before = brush_size_max - 1
    /\ ui.brush_size_f = brush_size_max * FloatUnit


(* ------------------ claims on carving and restoring ------------------- *)
Destructive == {"CircleFull", "CircleFractional", "DestructTerrain_GaussFractional"}
\* the distances the disc stamp of the run applies an amount at
DiscDistances ==
    {DiscDistance(o) : o \in {o \in (-brush.radius..brush.radius) \X (-brush.radius..brush.radius) :
                                 DiscDistance(o) <= brush.radius}}

\* C16: at every point of a run of CircleFull, CircleFractional or the
\* destructive cone sweep no cell is above the level it had before the run,
\* and at every point of a run of the restorative cone sweep no cell is below
\* it; the amount of the disc stamp, e^(-mapped^2) - 0.2 with mapped in [0,1],
\* and the amount of a ray of a sweep, e^(-mapped^2) - 0.3 with mapped in
\* [-1,1], are above 0 wherever they are applied.
C16_CarveRestoreMonotone ==
    /\ brush.op \in Destructive => \A c \in DOMAIN map : map[c] <= brush.before[c]
    /\ brush.op = "RestoreTerrain_GaussFractional" =>
           \A c \in DOMAIN map : map[c] >= brush.before[c]
    /\ brush.op = "CircleFractional" =>
           \A distance \in DiscDistances :
               /\ distance \in 0..brush.radius
               /\ DiscValue(distance, brush.radius) > 0
    /\ (IsSweep /\ brush.pc = "sweep" /\ ConeLoopCond(brush.i)) =>
           /\ brush.i \in -cone_angle..cone_angle
           /\ ConeValue(brush.i) > 0

\* a destructive sweep under way that has taken a part of a cell's density
C16_Witness ==
    /\ IsSweep /\ brush.pc = "sweep"
    /\ brush.op = "DestructTerrain_GaussFractional"
    /\ \E c \in DOMAIN map : map[c] > 0 /\ map[c] < brush.before[c]


(* ------------------ claims on the frames on a map --------------------- *)
\* C17: from ResetMap on and as long as PaintMouseLocation is not used, after
\* every frame, whatever the mode, the buttons, the player and the pointer,
\* the frame's cast has returned hit = false, no brush has been called and
\* every cell of the map is 0.
C17_EmptyGridAbsorbing ==
    ui.emptied =>
        /\ ~ui.raycast_hit
        /\ ui.invoked = "none" /\ brush = Idle
        /\ \A c \in DOMAIN map : map[c] = 0

\* the map painted and reset, then a frame with an edit button down, the gate
\* open, the restoring sweep selected and the player and the pointer on the map
C17_Witness ==
    /\ ui.emptied /\ ui.painted /\ ui.editing /\ ui.can_edit_terrain
    /\ ui.mode = "GaussFractional"
    /\ ui.player_pos = <<0, 0>> /\ ui.ray_dir = <<1, 1>> /\ ui.max2 = MaxDist2

=============================================================================
